---- MODULE Spec2Model ----
(***************************************************************************)
(* Model of chooser-player.py: an interactive chooser that scans a         *)
(* directory for video files, groups them by channel (the filename prefix  *)
(* up to the first "_"), asks for a channel and a video, plays the choice  *)
(* with mpv and offers to delete each played file.                         *)
(*                                                                         *)
(* Strings are sequences of one-character strings, so that split, replace, *)
(* lower, int and the glob match are computed character by character.      *)
(* One action is one stretch of main() between two blocking calls          *)
(* (input() and os.system()).                                              *)
(***************************************************************************)
EXTENDS Integers, Sequences, FiniteSets, TLC

(***************************************************************************)
(* Bounds of the model                                                     *)
(***************************************************************************)
\* largest number of files in the directory
MaxFiles == 3
\* creation times are drawn from 1..MaxTime
MaxTime == 2

(***************************************************************************)
(* The environment: file names, directory path, what the user may type     *)
(***************************************************************************)
\* the names a file of the directory may have
FileNames ==
    { <<"a", "_", "1", ".", "m", "p", "4">>,
      <<"a", "_", "2", ".", "m", "p", "4">>,
      <<"a", "_", "3", ".", "m", "k", "v">>,
      <<"b", "_", "1", ".", "m", "p", "4">>,
      <<"c", ".", "m", "o", "v">>,
      <<"n", ".", "t", "x", "t">> }

\* the character ` (a grave accent), which a string of this language cannot
\* hold as itself
Backtick == "grave"

\* names with a blank, a double quote, a dollar sign, backticks, two
\* backslashes, and a name whose rest repeats its channel key
OddFileNames ==
    { <<"a", "_", "1", " ", "2", ".", "m", "p", "4">>,
      <<"a", "_", "\"", ".", "m", "p", "4">>,
      <<"a", "_", "$", "x", ".", "m", "p", "4">>,
      <<"a", "_", Backtick, "x", Backtick, ".", "m", "p", "4">>,
      <<"a", "_", "\\", "\\", ".", "m", "p", "4">>,
      <<"a", "_", "a", "_", "1", ".", "m", "p", "4">> }

\* args.dir
DirPath == <<"d">>

\* lines the user may type at the channel prompt and at the video prompt
Inputs ==
    { <<>>,
      <<"0">>, <<"1">>, <<"2">>, <<"3">>, <<"4">>, <<"5">>,
      <<"-", "1">>, <<"-", "3">>, <<"+", "2">>, <<"0", "1">>, <<" ", "3">>,
      <<"x">>, <<"1", "x">>, <<"-">>, <<" ">> }

\* lines the user may type at the "Delete file? [y/N]" prompt
DeleteAnswers ==
    { <<>>, <<"y">>, <<"Y">>, <<"n">>, <<"N">>, <<"y", "e", "s">> }

\* value of a text variable that main() has not assigned yet: a sequence no
\* line of text equals, since its one element is not a character
None == <<"None">>

\* value of an integer variable that main() has not assigned yet (and of the
\* exit status while the process runs): no input in Inputs parses to it
NoneInt == -1000

(***************************************************************************)
(* Library functions, computed as Python computes them                     *)
(***************************************************************************)
\* s[i:] (0-based i, as in Python)
DropFirst(s, i) == SubSeq(s, i + 1, Len(s))

\* s.startswith(p)
StartsWith(s, p) == Len(p) <= Len(s) /\ SubSeq(s, 1, Len(p)) = p

\* s.endswith(p)
EndsWith(s, p) == Len(p) <= Len(s) /\ SubSeq(s, Len(s) - Len(p) + 1, Len(s)) = p

\* position (1-based) of the first occurrence of character c in s, 0 if none
FirstIndex(s, c) ==
    IF \E i \in 1..Len(s) : s[i] = c
    THEN CHOOSE i \in 1..Len(s) : s[i] = c /\ \A j \in 1..(i - 1) : s[j] # c
    ELSE 0

\* position (1-based) of the last occurrence of character c in s, 0 if none
LastIndex(s, c) ==
    IF \E i \in 1..Len(s) : s[i] = c
    THEN CHOOSE i \in 1..Len(s) : s[i] = c /\ \A j \in (i + 1)..Len(s) : s[j] # c
    ELSE 0

\* os.path.join(path, name) on POSIX, for a relative name
join(path, name) ==
    IF path = <<>> \/ path[Len(path)] = "/" THEN path \o name
    ELSE path \o <<"/">> \o name

\* os.path.basename(p): what follows the last "/"
basename(p) == DropFirst(p, LastIndex(p, "/"))

\* s.split("_")[0]: what precedes the first "_", the whole of s if it has none
SplitFirst(s) ==
    IF FirstIndex(s, "_") = 0 THEN s ELSE SubSeq(s, 1, FirstIndex(s, "_") - 1)

\* s.replace(old, ""): every non-overlapping occurrence of old removed,
\* scanning from the left (old is never empty here: it ends with "_")
RECURSIVE replace(_, _)
replace(s, old) ==
    IF s = <<>> THEN <<>>
    ELSE IF StartsWith(s, old) THEN replace(DropFirst(s, Len(old)), old)
    ELSE <<Head(s)>> \o replace(Tail(s), old)

\* one character of str.lower(), on the characters of DeleteAnswers
LowerChar(c) ==
    CASE c = "Y" -> "y"
      [] c = "N" -> "n"
      [] OTHER -> c

\* s.lower()
lower(s) == [i \in 1..Len(s) |-> LowerChar(s[i])]

\* s.strip() for the whitespace character " "
RECURSIVE LStrip(_)
LStrip(s) == IF s # <<>> /\ Head(s) = " " THEN LStrip(Tail(s)) ELSE s

RECURSIVE RStrip(_)
RStrip(s) ==
    IF s # <<>> /\ s[Len(s)] = " " THEN RStrip(SubSeq(s, 1, Len(s) - 1)) ELSE s

Strip(s) == RStrip(LStrip(s))

DigitVal ==
    [c \in {"0", "1", "2", "3", "4", "5", "6", "7", "8", "9"} |->
        CASE c = "0" -> 0 [] c = "1" -> 1 [] c = "2" -> 2 [] c = "3" -> 3
          [] c = "4" -> 4 [] c = "5" -> 5 [] c = "6" -> 6 [] c = "7" -> 7
          [] c = "8" -> 8 [] c = "9" -> 9]

\* value of a non-empty sequence of decimal digits
RECURSIVE DigitsValue(_)
DigitsValue(d) ==
    IF d = <<>> THEN 0
    ELSE 10 * DigitsValue(SubSeq(d, 1, Len(d) - 1)) + DigitVal[d[Len(d)]]

\* the digits of an integer literal: surrounding blanks and one sign removed
Unsigned(s) ==
    LET t == Strip(s)
    IN  IF t # <<>> /\ Head(t) \in {"+", "-"} THEN Tail(t) ELSE t

\* variant of int: a line that is no integer yields 1 instead of raising
IntDefaultsOnFailure(s) ==
    LET t == Strip(s)
        u == Unsigned(s)
    IN  IF u # <<>> /\ \A i \in 1..Len(u) : u[i] \in DOMAIN DigitVal
        THEN [ok |-> TRUE,
              value |-> IF Head(t) = "-" THEN 0 - DigitsValue(u) ELSE DigitsValue(u)]
        ELSE [ok |-> TRUE, value |-> 1]

\* int(s) over the characters of Inputs (digits, sign, blank, letters):
\* [ok |-> TRUE, value |-> n], or [ok |-> FALSE] when int() raises ValueError
int(s) ==
    LET t == Strip(s)
        u == Unsigned(s)
    IN  IF u # <<>> /\ \A i \in 1..Len(u) : u[i] \in DOMAIN DigitVal
        THEN [ok |-> TRUE,
              value |-> IF Head(t) = "-" THEN 0 - DigitsValue(u) ELSE DigitsValue(u)]
        ELSE [ok |-> FALSE, value |-> 0]

\* variant of PyIndex: a non-negative index counts from the end as well
PyIndexFromEnd(seq, i) == IF i >= 0 THEN seq[Len(seq) - i] ELSE seq[Len(seq) + i + 1]

\* seq[i] with a 0-based index; a negative index counts from the end
PyIndex(seq, i) == IF i >= 0 THEN seq[i + 1] ELSE seq[Len(seq) + i + 1]

\* the orders in which os.listdir may return the files of the directory
ListingOrders(S) ==
    { o \in [1..Cardinality(S) -> S] : \A i, j \in 1..Cardinality(S) : o[i] = o[j] => i = j }

(***************************************************************************)
(* os.system: /bin/sh -c on the command line, for the characters of        *)
(* FileNames and OddFileNames                                              *)
(***************************************************************************)
\* the characters of a shell variable's name
ShNameChars ==
    { "a", "b", "c", "d", "e", "f", "g", "h", "i", "j", "k", "l", "m", "n", "o", "p",
      "q", "r", "s", "t", "u", "v", "w", "x", "y", "z", "_",
      "0", "1", "2", "3", "4", "5", "6", "7", "8", "9" }

\* length of the longest prefix of s made of name characters
RECURSIVE NameLen(_)
NameLen(s) ==
    IF s # <<>> /\ Head(s) \in ShNameChars THEN 1 + NameLen(Tail(s)) ELSE 0

\* value of a shell variable: none is set in the player's environment
Environ(name) == <<>>

\* standard output of a command substitution: the command is not found
CommandOutput(command) == <<>>

\* the shell reading the rest s of a command line: `quoted` inside double
\* quotes, `word` the current word if `open`, argv the words completed,
\* evaluated the expansions and substitutions met.  A blank outside quotes
\* ends a word; a double quote toggles quoting; a backslash outside quotes
\* makes the next character literal, inside quotes only before $ ` " \;
\* $name is replaced by the variable's value and `command` by the command's
\* output; a quote or backtick left open is a syntax error and nothing runs
RECURSIVE ShScan(_, _, _, _, _, _)
ShScan(s, quoted, word, open, argv, evaluated) ==
    IF s = <<>>
    THEN IF quoted
         THEN [status |-> "syntax error", argv |-> <<>>, evaluated |-> <<>>]
         ELSE [status |-> "run",
               argv |-> IF open THEN Append(argv, word) ELSE argv,
               evaluated |-> evaluated]
    ELSE CASE Head(s) = "\"" ->
                ShScan(Tail(s), ~quoted, word, TRUE, argv, evaluated)
           [] Head(s) = " " /\ ~quoted ->
                ShScan(Tail(s), FALSE, <<>>, FALSE,
                       IF open THEN Append(argv, word) ELSE argv, evaluated)
           [] Head(s) = "\\" ->
                IF Tail(s) = <<>>
                THEN ShScan(Tail(s), quoted, Append(word, "\\"), TRUE, argv, evaluated)
                ELSE IF ~quoted \/ s[2] \in {"$", Backtick, "\"", "\\"}
                THEN ShScan(DropFirst(s, 2), quoted, Append(word, s[2]), TRUE,
                            argv, evaluated)
                ELSE ShScan(Tail(s), quoted, Append(word, "\\"), TRUE, argv, evaluated)
           [] Head(s) = "$" /\ NameLen(Tail(s)) > 0 ->
                ShScan(DropFirst(s, 1 + NameLen(Tail(s))), quoted,
                       word \o Environ(SubSeq(s, 2, 1 + NameLen(Tail(s)))),
                       open \/ quoted, argv,
                       Append(evaluated, SubSeq(s, 1, 1 + NameLen(Tail(s)))))
           [] Head(s) = Backtick ->
                IF FirstIndex(Tail(s), Backtick) = 0
                THEN [status |-> "syntax error", argv |-> <<>>, evaluated |-> <<>>]
                ELSE ShScan(DropFirst(s, 1 + FirstIndex(Tail(s), Backtick)), quoted,
                            word \o CommandOutput(SubSeq(s, 2, FirstIndex(Tail(s), Backtick))),
                            open \/ quoted, argv,
                            Append(evaluated, SubSeq(s, 1, 1 + FirstIndex(Tail(s), Backtick))))
           [] OTHER ->
                ShScan(Tail(s), quoted, Append(word, Head(s)), TRUE, argv, evaluated)

\* os.system(command) (line 54): what sh -c makes of the command line, the
\* argument vector it executes and what it evaluated on the way
system(command) == ShScan(command, FALSE, <<>>, FALSE, <<>>, <<>>)

\* 'mpv "{}"'.format(filename) (line 53)
cmd(name) == <<"m", "p", "v", " ", "\"">> \o name \o <<"\"">>

(***************************************************************************)
(* State                                                                   *)
(***************************************************************************)
VARIABLES
    dir_state,          \* "ok", "missing" or "unreadable": the directory args.dir
    disk,               \* names of the files now in the directory
    disk0,              \* names of the files in the directory when the run began
    ctime,              \* os.path.getctime of each file of the directory
    pc,                 \* where main() is: "start", a blocking call, or "exit"
    videos,             \* main's videos: the scan result, then the chosen channel's files
    videos_by_channel,  \* the dict, in insertion order: <<[channel, videos], ...>>
    channel_lines,      \* the channel listing printed (lines 89-99)
    channel_index,      \* main's channel_index after line 106/108
    channel,            \* main's channel (line 113)
    sorted_videos,      \* main's sorted_videos (line 124)
    video_lines,        \* the video listing printed (lines 126-141)
    play_all_line,      \* the number printed for "Play all videos" (line 141)
    video_index,        \* main's video_index after line 147/149
    answer,             \* the last line input() returned
    scanned,            \* what get_videos returned (line 81)
    earlier_runs,       \* what the finished runs on this directory left behind
    filename,           \* play_video's filename while it runs
    queue,              \* what the loop of line 158 has still to play
    stdout,             \* prompts and messages written, in order
    played,             \* the filenames mpv was started for, in order
    stderr,             \* the uncaught exception's traceback, if any
    removed,            \* the filenames os.remove was called for, in order
    exit_status         \* the process's exit status once pc = "exit"

vars ==
    << dir_state, disk, disk0, ctime, pc, videos, videos_by_channel, channel_lines,
       channel_index, channel, sorted_videos, video_lines, play_all_line, video_index,
       answer, scanned, earlier_runs, filename, queue, stdout, stderr, played,
       removed, exit_status >>

(***************************************************************************)
(* The program's functions                                                 *)
(***************************************************************************)
\* extensions (line 79)
extensions ==
    << <<"m", "p", "4">>, <<"m", "k", "v">>, <<"a", "v", "i">>, <<"m", "o", "v">> >>

\* fnmatch of a directory entry against "*.<extension>"; glob skips hidden
\* entries (a leading ".") for a pattern that does not start with "."
GlobMatch(name, extension) ==
    /\ name # <<>>
    /\ Head(name) # "."
    /\ EndsWith(name, <<".">> \o extension)

\* glob.glob(os.path.join(path, "*.<extension>")): the matching entries in
\* listing order, each joined to the directory path
Glob(path, listing, extension) ==
    LET Hit(name) == GlobMatch(name, extension)
        hits == SelectSeq(listing, Hit)
    IN  [i \in 1..Len(hits) |-> join(path, hits[i])]

\* variant of get_videos: every directory entry is returned, whatever its extension
AllEntries(path, listing, exts) == [i \in 1..Len(listing) |-> join(path, listing[i])]

\* get_videos(path, extensions) when os.listdir yields `listing`
RECURSIVE get_videos(_, _, _)
get_videos(path, listing, exts) ==
    IF exts = <<>> THEN <<>>
    ELSE Glob(path, listing, Head(exts)) \o get_videos(path, listing, Tail(exts))

\* what os.listdir yields inside glob: glob swallows the OSError of a
\* missing or unreadable directory and matches nothing
Listings ==
    IF dir_state = "ok" THEN ListingOrders(disk) ELSE { <<>> }

\* the channel key of a video (line 29)
ChannelOf(video) == SplitFirst(basename(video))

\* variant of AddVideo: a new channel is put in front of the others
AddVideoFront(channel_dict, video) ==
    LET ch == ChannelOf(video)
    IN  IF \A i \in 1..Len(channel_dict) : channel_dict[i].channel # ch
        THEN <<[channel |-> ch, videos |-> <<video>>]>> \o channel_dict
        ELSE [i \in 1..Len(channel_dict) |->
                IF channel_dict[i].channel = ch
                THEN [channel |-> ch, videos |-> Append(channel_dict[i].videos, video)]
                ELSE channel_dict[i]]

\* variant of AddVideo: a further video of a channel replaces its list
AddVideoOverwrite(channel_dict, video) ==
    LET ch == ChannelOf(video)
    IN  IF \A i \in 1..Len(channel_dict) : channel_dict[i].channel # ch
        THEN Append(channel_dict, [channel |-> ch, videos |-> <<video>>])
        ELSE [i \in 1..Len(channel_dict) |->
                IF channel_dict[i].channel = ch
                THEN [channel |-> ch, videos |-> <<video>>]
                ELSE channel_dict[i]]

\* one iteration of the loop of split_by_channels (lines 29-33)
AddVideo(channel_dict, video) ==
    LET ch == ChannelOf(video)
    IN  IF \A i \in 1..Len(channel_dict) : channel_dict[i].channel # ch
        THEN Append(channel_dict, [channel |-> ch, videos |-> <<video>>])
        ELSE [i \in 1..Len(channel_dict) |->
                IF channel_dict[i].channel = ch
                THEN [channel |-> ch, videos |-> Append(channel_dict[i].videos, video)]
                ELSE channel_dict[i]]

\* split_by_channels(videos): the dict as its items in insertion order
RECURSIVE SplitInto(_, _)
SplitInto(channel_dict, vs) ==
    IF vs = <<>> THEN channel_dict
    ELSE SplitInto(AddVideo(channel_dict, Head(vs)), Tail(vs))

split_by_channels(vs) == SplitInto(<<>>, vs)

\* os.path.getctime(video)
getctime(video) == ctime[basename(video)]

\* variant of InsertByCtime: x goes in front of the elements of equal key
RECURSIVE InsertBeforeEqual(_, _)
InsertBeforeEqual(s, x) ==
    IF s = <<>> THEN <<x>>
    ELSE IF getctime(Head(s)) < getctime(x)
         THEN <<Head(s)>> \o InsertBeforeEqual(Tail(s), x)
         ELSE <<x>> \o s

\* insertion of x behind every element whose key is not greater (stable)
RECURSIVE InsertByCtime(_, _)
InsertByCtime(s, x) ==
    IF s = <<>> THEN <<x>>
    ELSE IF getctime(Head(s)) <= getctime(x)
         THEN <<Head(s)>> \o InsertByCtime(Tail(s), x)
         ELSE <<x>> \o s

RECURSIVE SortInto(_, _)
SortInto(acc, vs) ==
    IF vs = <<>> THEN acc ELSE SortInto(InsertByCtime(acc, Head(vs)), Tail(vs))

\* variant of SortByCtime: the list is left in scan order
Unsorted(vs) == vs

\* sorted(videos, key=lambda x: os.path.getctime(x)) (line 124): stable
SortByCtime(vs) == SortInto(<<>>, vs)

\* the channel listing (lines 89-99): number, channel, count if more than 1
ChannelLines(by_channel) ==
    [i \in 1..Len(by_channel) |->
        [num |-> i,
         channel |-> by_channel[i].channel,
         count |-> IF Len(by_channel[i].videos) > 1
                   THEN <<Len(by_channel[i].videos)>> ELSE <<>>]]

\* the video listing (lines 126-138): number, name without channel, timestamp
VideoLines(svs, ch) ==
    [i \in 1..Len(svs) |->
        [num |-> i,
         name |-> replace(basename(svs[i]), ch \o <<"_">>),
         timestamp |-> getctime(svs[i]),
         video |-> svs[i]]]

\* variant of ChannelInRange: every index Python's list indexing accepts
ChannelIndexable(index, n) == index >= 0 - n /\ index < n

\* channel_index in range(len(videos_by_channel.keys())) (line 109)
ChannelInRange(index, n) == index \in 0..(n - 1)

\* variant of VideoInRange: negative indices that list indexing accepts pass
VideoIndexable(index, n) == index >= 0 - n /\ index < n + 1

\* video_index in range(len(sorted_videos) + 1) (line 150)
VideoInRange(index, n) == index >= 0 /\ index < n + 1

\* variant of IsSingleVideo: the single-video shortcut is never taken
NeverSingle(vs) == Len(vs) = 0

\* len(videos) == 1 (line 119)
IsSingleVideo(vs) == Len(vs) = 1

\* len(videos) == 0 (line 82)
NoVideos(vs) == Len(vs) = 0

\* variant of WantsDelete: everything but "n" deletes
DeleteUnlessNo(delete) == lower(delete) # <<"n">>

\* delete.lower() == "y" (line 56)
WantsDelete(delete) == lower(delete) = <<"y">>

(***************************************************************************)
(* Initial state: a directory, its creation times; main() not yet started  *)
(***************************************************************************)
Init ==
    /\ dir_state \in {"ok", "missing", "unreadable"}
    /\ disk \in { S \in SUBSET FileNames : Cardinality(S) <= MaxFiles }
    /\ dir_state = "missing" => disk = {}
    /\ disk0 = disk
    /\ ctime \in [disk -> 1..MaxTime]
    /\ pc = "start"
    /\ videos = <<>>
    /\ videos_by_channel = <<>>
    /\ channel_lines = <<>>
    /\ channel_index = NoneInt
    /\ channel = None
    /\ sorted_videos = <<>>
    /\ video_lines = <<>>
    /\ play_all_line = NoneInt
    /\ video_index = NoneInt
    /\ answer = None
    /\ scanned = <<>>
    /\ earlier_runs = <<>>
    /\ filename = None
    /\ queue = <<>>
    /\ stdout = <<>>
    /\ stderr = <<>>
    /\ played = <<>>
    /\ removed = <<>>
    /\ exit_status = NoneInt

(***************************************************************************)
(* Steps shared by the actions                                             *)
(***************************************************************************)
\* sys.exit(status), or the interpreter's exit after an uncaught exception
Exit(status, out, err) ==
    /\ pc' = "exit"
    /\ exit_status' = status
    /\ stdout' = out
    /\ stderr' = err

\* play_video(video) up to its blocking os.system call (lines 53-54); rest is
\* what the caller's loop plays afterwards
StartPlay(video, rest, out) ==
    /\ filename' = video
    /\ queue' = rest
    /\ played' = Append(played, video)
    /\ stdout' = out
    /\ pc' = "mpv"
    /\ UNCHANGED <<stderr, exit_status>>

(***************************************************************************)
(* Actions                                                                 *)
(***************************************************************************)
\* lines 81-103: scan, exit 0 if nothing was found, else group, print the
\* channel listing and block in the channel prompt
Scan ==
    /\ pc = "start"
    /\ \E listing \in Listings :
       \E vs \in { get_videos(DirPath, listing, extensions) } :
       \E groups \in { split_by_channels(vs) } :
         IF NoVideos(vs)
         THEN /\ Exit(0, Append(stdout, "No videos found"), stderr)
              /\ videos' = vs
              /\ scanned' = vs
              /\ UNCHANGED <<videos_by_channel, channel_lines>>
         ELSE /\ videos' = vs
              /\ scanned' = vs
              /\ videos_by_channel' = groups
              /\ channel_lines' = ChannelLines(groups)
              /\ stdout' = Append(stdout, "Choose channel to watch next: ")
              /\ pc' = "channel_prompt"
              /\ UNCHANGED <<stderr, exit_status>>
    /\ UNCHANGED <<dir_state, disk, disk0, ctime, channel_index, channel, sorted_videos,
                   video_lines, play_all_line, video_index, answer, earlier_runs,
                   filename, queue, played, removed>>

\* lines 113-141, once channel_index is in range: the single video is played
\* at once, else the sorted listing is printed and the video prompt blocks
EnterChannel(index, out) ==
    \E ch \in { PyIndex(videos_by_channel, index).channel } :
    \E vs \in { PyIndex(videos_by_channel, index).videos } :
    \E sorted \in { SortByCtime(vs) } :
        /\ channel' = ch
        /\ videos' = vs
        /\ IF IsSingleVideo(vs)
           THEN /\ StartPlay(vs[1], <<>>, out)
                /\ UNCHANGED <<sorted_videos, video_lines, play_all_line>>
           ELSE /\ sorted_videos' = sorted
                /\ video_lines' = VideoLines(sorted, ch)
                /\ play_all_line' = Len(vs) + 1
                /\ stdout' = Append(out, "Choose video to watch next: ")
                /\ pc' = "video_prompt"
                /\ UNCHANGED <<filename, queue, played, stderr, exit_status>>

\* lines 103-141: the answer to the channel prompt
AnswerChannel ==
    /\ pc = "channel_prompt"
    /\ \E line \in Inputs :
         /\ answer' = line
         /\ IF line = <<>>
            THEN \* lines 105-106, then 109: 0 is in range, there is a channel
                 /\ channel_index' = 0
                 /\ IF ChannelInRange(0, Len(videos_by_channel))
                    THEN EnterChannel(0,
                            Append(stdout, "No input - choosing first channel as default"))
                    ELSE /\ Exit(1, stdout \o <<"No input - choosing first channel as default",
                                                "Channel index out of range">>, stderr)
                         /\ UNCHANGED <<channel, videos, sorted_videos, video_lines,
                                        play_all_line, filename, queue, played>>
            ELSE IF ~int(line).ok
            THEN \* line 108 raises ValueError, which nothing catches
                 /\ Exit(1, stdout, Append(stderr, "ValueError"))
                 /\ UNCHANGED <<channel_index, channel, videos, sorted_videos, video_lines,
                                play_all_line, filename, queue, played>>
            ELSE /\ channel_index' = int(line).value - 1
                 /\ IF ChannelInRange(int(line).value - 1, Len(videos_by_channel))
                    THEN EnterChannel(int(line).value - 1, stdout)
                    ELSE /\ Exit(1, Append(stdout, "Channel index out of range"), stderr)
                         /\ UNCHANGED <<channel, videos, sorted_videos, video_lines,
                                        play_all_line, filename, queue, played>>
    /\ UNCHANGED <<dir_state, disk, disk0, ctime, videos_by_channel, channel_lines,
                   video_index, removed, scanned, earlier_runs>>

\* lines 154-161, once video_index is in range: "play all" starts the loop
\* over sorted_videos, any other index plays videos[video_index]
PlayChoice(index, out) ==
    IF index = Len(sorted_videos)
    THEN StartPlay(Head(sorted_videos), Tail(sorted_videos),
                   Append(out, "Playing all videos in order of creation date"))
    ELSE StartPlay(PyIndex(videos, index), <<>>, out)

\* lines 144-161: the answer to the video prompt
AnswerVideo ==
    /\ pc = "video_prompt"
    /\ \E line \in Inputs :
         /\ answer' = line
         /\ IF line = <<>>
            THEN /\ video_index' = 0
                 /\ IF VideoInRange(0, Len(sorted_videos))
                    THEN PlayChoice(0,
                            Append(stdout, "No input - choosing first video as default"))
                    ELSE /\ Exit(1, stdout \o <<"No input - choosing first video as default",
                                                "Video index out of range">>, stderr)
                         /\ UNCHANGED <<filename, queue, played>>
            ELSE IF ~int(line).ok
            THEN \* line 149 raises ValueError, which nothing catches
                 /\ Exit(1, stdout, Append(stderr, "ValueError"))
                 /\ UNCHANGED <<video_index, filename, queue, played>>
            ELSE /\ video_index' = int(line).value - 1
                 /\ IF VideoInRange(int(line).value - 1, Len(sorted_videos))
                    THEN PlayChoice(int(line).value - 1, stdout)
                    ELSE /\ Exit(1, Append(stdout, "Video index out of range"), stderr)
                         /\ UNCHANGED <<filename, queue, played>>
    /\ UNCHANGED <<dir_state, disk, disk0, ctime, videos, videos_by_channel, channel_lines,
                   channel_index, channel, sorted_videos, video_lines, play_all_line, removed,
                   scanned, earlier_runs>>

\* line 54-55: mpv exits (with whatever status), os.system returns and
\* play_video blocks in the deletion prompt
PlayerExit ==
    /\ pc = "mpv"
    /\ stdout' = Append(stdout, "Delete file? [y/N] ")
    /\ pc' = "delete_prompt"
    /\ UNCHANGED <<dir_state, disk, disk0, ctime, videos, videos_by_channel, channel_lines,
                   channel_index, channel, sorted_videos, video_lines, play_all_line,
                   video_index, answer, scanned, earlier_runs, filename, queue, stderr,
                   played, removed, exit_status>>

\* what follows play_video's return: the next video of the loop of line 158,
\* or the end of main (line 121's sys.exit(0), or falling off line 161)
AfterPlay ==
    IF queue # <<>>
    THEN StartPlay(Head(queue), Tail(queue), stdout)
    ELSE /\ Exit(0, stdout, stderr)
         /\ UNCHANGED <<filename, queue, played>>

\* lines 55-58 and the return to main: the answer to the deletion prompt
AnswerDelete ==
    /\ pc = "delete_prompt"
    /\ \E delete \in DeleteAnswers :
         /\ answer' = delete
         /\ IF WantsDelete(delete)
            THEN IF basename(filename) \in disk
                 THEN /\ disk' = disk \ {basename(filename)}
                      /\ removed' = Append(removed, filename)
                      /\ AfterPlay
                 ELSE \* os.remove raises FileNotFoundError
                      /\ Exit(1, stdout, Append(stderr, "FileNotFoundError"))
                      /\ removed' = Append(removed, filename)
                      /\ UNCHANGED <<disk, filename, queue, played>>
            ELSE /\ AfterPlay
                 /\ UNCHANGED <<disk, removed>>
    /\ UNCHANGED <<dir_state, disk0, ctime, videos, videos_by_channel, channel_lines,
                   channel_index, channel, sorted_videos, video_lines, play_all_line,
                   video_index, scanned, earlier_runs>>

\* line 57 when the file cannot be removed (it or its directory is
\* write-protected): os.remove raises OSError, which nothing catches, so the
\* interpreter prints the traceback and exits with status 1
DeleteFails ==
    /\ pc = "delete_prompt"
    /\ \E delete \in DeleteAnswers :
         /\ WantsDelete(delete)
         /\ answer' = delete
         /\ Exit(1, stdout, Append(stderr, "OSError"))
    /\ UNCHANGED <<dir_state, disk, disk0, ctime, videos, videos_by_channel, channel_lines,
                   channel_index, channel, sorted_videos, video_lines, play_all_line,
                   video_index, scanned, earlier_runs, filename, queue, played, removed>>

Next ==
    \/ Scan
    \/ AnswerChannel
    \/ AnswerVideo
    \/ PlayerExit
    \/ AnswerDelete

Spec == Init /\ [][Next]_vars

\* Spec is the program on a directory whose files the user may remove;
\* FallibleSpec adds the runs in which a removal fails
NextFallible ==
    \/ Next
    \/ DeleteFails

FallibleSpec == Init /\ [][NextFallible]_vars

\* the run when the program is scheduled, every prompt is eventually
\* answered and every player process eventually exits
FairSpec ==
    /\ Init
    /\ [][NextFallible]_vars
    /\ WF_vars(Scan)
    /\ WF_vars(AnswerChannel)
    /\ WF_vars(AnswerVideo)
    /\ WF_vars(PlayerExit)
    /\ WF_vars(AnswerDelete)

(***************************************************************************)
(* The program on a directory of oddly named files                         *)
(***************************************************************************)
\* a readable directory of files of OddFileNames, all created within the
\* same clock tick
InitOddNames ==
    /\ dir_state = "ok"
    /\ disk \in { S \in SUBSET OddFileNames : Cardinality(S) <= MaxFiles }
    /\ disk0 = disk
    /\ ctime = [name \in disk |-> 1]
    /\ pc = "start"
    /\ videos = <<>>
    /\ videos_by_channel = <<>>
    /\ channel_lines = <<>>
    /\ channel_index = NoneInt
    /\ channel = None
    /\ sorted_videos = <<>>
    /\ video_lines = <<>>
    /\ play_all_line = NoneInt
    /\ video_index = NoneInt
    /\ answer = None
    /\ scanned = <<>>
    /\ earlier_runs = <<>>
    /\ filename = None
    /\ queue = <<>>
    /\ stdout = <<>>
    /\ stderr = <<>>
    /\ played = <<>>
    /\ removed = <<>>
    /\ exit_status = NoneInt

OddNamesSpec == InitOddNames /\ [][Next]_vars

(***************************************************************************)
(* A second run of the program on the same directory                       *)
(***************************************************************************)
\* the first run starts on a readable directory of video files of the
\* channels a and b
InitTwoRuns ==
    /\ Init
    /\ dir_state = "ok"
    /\ \A name \in disk : SplitFirst(name) \in { <<"a">>, <<"b">> }

\* lines 164-165 again: the program is started once more after a first run
\* that played something has exited; only the directory outlives the process
Restart ==
    /\ pc = "exit"
    /\ earlier_runs = <<>>
    /\ played # <<>>
    /\ earlier_runs' = << [played |-> played, removed |-> removed, answer |-> answer,
                           exit_status |-> exit_status] >>
    /\ disk0' = disk
    /\ pc' = "start"
    /\ videos' = <<>>
    /\ videos_by_channel' = <<>>
    /\ channel_lines' = <<>>
    /\ channel_index' = NoneInt
    /\ channel' = None
    /\ sorted_videos' = <<>>
    /\ video_lines' = <<>>
    /\ play_all_line' = NoneInt
    /\ video_index' = NoneInt
    /\ answer' = None
    /\ scanned' = <<>>
    /\ filename' = None
    /\ queue' = <<>>
    /\ stdout' = <<>>
    /\ stderr' = <<>>
    /\ played' = <<>>
    /\ removed' = <<>>
    /\ exit_status' = NoneInt
    /\ UNCHANGED <<dir_state, disk, ctime>>

\* the first run is followed to its end, the second run through its scan,
\* grouping and channel listing
NextTwoRuns ==
    \/ earlier_runs = <<>> /\ Next
    \/ earlier_runs # <<>> /\ Scan
    \/ Restart

TwoRunsSpec == InitTwoRuns /\ [][NextTwoRuns]_vars

(***************************************************************************)
(* Vocabulary of the properties                                            *)
(***************************************************************************)
ChannelPromptText == "Choose channel to watch next: "
VideoPromptText == "Choose video to watch next: "
DeletePromptText == "Delete file? [y/N] "
PlayAllText == "Playing all videos in order of creation date"

Has(seq, x) == \E i \in DOMAIN seq : seq[i] = x
Count(seq, x) == Cardinality({ i \in DOMAIN seq : seq[i] = x })
Range(seq) == { seq[i] : i \in DOMAIN seq }

\* the decimal numeral of k, for -9 <= k <= 9
Numeral(k) ==
    LET digit == <<"0", "1", "2", "3", "4", "5", "6", "7", "8", "9">>
    IN  IF k < 0 THEN <<"-", digit[1 - k]>> ELSE <<digit[k + 1]>>

\* the lines of Inputs that are integers, each with the integer it denotes
IntegerInputs ==
    { <<Numeral(k), k>> : k \in -9..9 }
        \cup { << <<"+", "2">>, 2 >>, << <<"0", "1">>, 1 >>, << <<" ", "3">>, 3 >> }

\* the lines of Inputs that are neither empty nor an integer
NonIntegerInputs == { <<"x">>, <<"1", "x">>, <<"-">>, <<" ">> }

\* a file name with one of the recognized extensions
Recognized(name) ==
    \E e \in { <<".", "m", "p", "4">>, <<".", "m", "k", "v">>,
               <<".", "a", "v", "i">>, <<".", "m", "o", "v">> } : EndsWith(name, e)

\* `answer` is the line typed at the channel prompt and main has acted on it
AnsweredChannel ==
    /\ Has(stdout, ChannelPromptText)
    /\ ~Has(stdout, DeletePromptText)
    /\ \/ pc = "video_prompt"
       \/ pc \in {"mpv", "exit"} /\ ~Has(stdout, VideoPromptText)

\* `answer` is the line typed at the video prompt and main has acted on it
AnsweredVideo ==
    /\ Has(stdout, VideoPromptText)
    /\ ~Has(stdout, DeletePromptText)
    /\ pc \in {"mpv", "exit"}

(***************************************************************************)
(* C1                                                                      *)
(***************************************************************************)
\* C1: at the video prompt a numeric choice k, 1 <= k <= number of videos,
\* plays exactly the video displayed on line k of the listing, and no other
C1_ChoicePlaysDisplayedLine ==
    /\ \A k \in 1..Len(video_lines) :
         (AnsweredVideo /\ answer = Numeral(k)) => played = <<video_lines[k].video>>
    /\ (Has(stdout, VideoPromptText) /\ ~Has(stdout, PlayAllText)) => Len(played) <= 1

(***************************************************************************)
(* C2                                                                      *)
(***************************************************************************)
\* C2: empty input at the video prompt plays the first video of the
\* creation-time-sorted listing, the oldest one, and only that one
C2_EmptyInputPlaysOldest ==
    (AnsweredVideo /\ answer = <<>>) =>
        /\ played = <<video_lines[1].video>>
        /\ \A v \in Range(videos) : getctime(played[1]) <= getctime(v)

C5_ScanFailureExitsNonZero ==
    (pc = "exit" /\ dir_state # "ok") => exit_status # 0

(***************************************************************************)
(* C6                                                                      *)
(***************************************************************************)
\* C6: an integer typed at the channel prompt that is below 1 or above the
\* number of channels ends the run with exit status 1: the prompt is not
\* repeated, no video prompt is issued and nothing is played
C6_ChannelOutOfRangeExits1 ==
    \A in \in IntegerInputs :
        (/\ AnsweredChannel
         /\ answer = in[1]
         /\ (in[2] - 1 < 0 \/ in[2] - 1 >= Len(channel_lines)))
        => /\ pc = "exit"
           /\ exit_status = 1
           /\ Count(stdout, ChannelPromptText) = 1
           /\ ~Has(stdout, VideoPromptText)
           /\ played = <<>>
           /\ removed = <<>>

\* "0" typed when two channels are listed
C6_Witness ==
    /\ AnsweredChannel
    /\ Len(channel_lines) = 2
    /\ answer = <<"0">>
    /\ pc = "exit"
    /\ exit_status = 1

(***************************************************************************)
(* C7                                                                      *)
(***************************************************************************)
\* C7: at the video prompt of a channel with n >= 2 videos an integer below
\* 1 or above n + 1 ends the run with a non-zero exit status, nothing played
\* and nothing deleted; every integer in 1..n+1 starts a playback
C7_VideoRangeIsOneToPlayAll ==
    \A in \in IntegerInputs :
        (AnsweredVideo /\ answer = in[1]) =>
            /\ Len(video_lines) >= 2
            /\ play_all_line = Len(video_lines) + 1
            /\ IF in[2] < 1 \/ in[2] > Len(video_lines) + 1
               THEN /\ pc = "exit"
                    /\ exit_status # 0
                    /\ played = <<>>
                    /\ removed = <<>>
                    /\ disk = disk0
               ELSE /\ pc = "mpv"
                    /\ Len(played) = 1

\* "-1" typed when two videos and "play all" are listed
C7_Witness ==
    /\ AnsweredVideo
    /\ Len(video_lines) = 2
    /\ answer = <<"-", "1">>
    /\ pc = "exit"
    /\ exit_status = 1

(***************************************************************************)
(* C8                                                                      *)
(***************************************************************************)
\* C8: a non-empty line that is no integer, typed at the channel prompt or
\* at the video prompt, ends the run with a non-zero exit status; no first
\* item is taken as default and nothing is played
C8_UnparsableInputIsFatal ==
    ((AnsweredChannel \/ AnsweredVideo) /\ answer \in NonIntegerInputs) =>
        /\ pc = "exit"
        /\ exit_status # 0
        /\ played = <<>>
        /\ removed = <<>>
        /\ ~Has(stdout, "No input - choosing first video as default")
        /\ AnsweredChannel =>
             /\ ~Has(stdout, "No input - choosing first channel as default")
             /\ ~Has(stdout, VideoPromptText)

\* "1x" typed at the video prompt
C8_Witness ==
    /\ AnsweredVideo
    /\ answer = <<"1", "x">>
    /\ pc = "exit"
    /\ exit_status = 1

(***************************************************************************)
(* C9                                                                      *)
(***************************************************************************)
\* C9: a run on a readable directory without any file of a recognized
\* extension ends with exit status 0, without any prompt and any playback
C9_NoVideosExits0WithoutPrompt ==
    (dir_state = "ok" /\ \A name \in disk0 : ~Recognized(name)) =>
        /\ pc \in {"start", "exit"}
        /\ ~Has(stdout, ChannelPromptText)
        /\ ~Has(stdout, VideoPromptText)
        /\ ~Has(stdout, DeletePromptText)
        /\ played = <<>>
        /\ pc = "exit" => exit_status = 0

\* the run on a directory holding only n.txt has ended
C9_Witness ==
    /\ dir_state = "ok"
    /\ disk0 = { <<"n", ".", "t", "x", "t">> }
    /\ pc = "exit"
    /\ exit_status = 0
    /\ stdout = <<"No videos found">>

(***************************************************************************)
(* C10                                                                     *)
(***************************************************************************)
\* main has entered a channel: channel_index is in range
ChannelEntered ==
    \/ pc \in {"video_prompt", "mpv", "delete_prompt"}
    \/ pc = "exit" /\ (played # <<>> \/ Has(stdout, VideoPromptText))

\* the files of the directory that belong to the channel shown on line i
FilesOfLine(i) ==
    { name \in disk0 : Recognized(name) /\ SplitFirst(name) = channel_lines[i].channel }

NameOf(path) == SubSeq(path, Len(DirPath) + 2, Len(path))

\* the channel key of a file name: the prefix in front of the first "_",
\* the whole name if it has no "_"
KeyOfName(name) ==
    LET k == CHOOSE k \in 0..Len(name) :
                 /\ k = Len(name) \/ name[k + 1] = "_"
                 /\ \A j \in 1..k : name[j] # "_"
    IN  SubSeq(name, 1, k)

KeyOf(path) == KeyOfName(NameOf(path))

\* the positions of a scan result at which a channel key occurs first
FirstOccurrences(vs) ==
    { i \in 1..Len(vs) : \A j \in 1..(i - 1) : KeyOf(vs[j]) # KeyOf(vs[i]) }

\* the n-th distinct channel key of a scan result, by first occurrence
NthKey(vs, n) ==
    LET first == FirstOccurrences(vs)
        i == CHOOSE i \in first : Cardinality({ j \in first : j <= i }) = n
    IN  KeyOf(vs[i])

\* the files of a scan result that have channel key k, in scan order
FilesWithKey(vs, k) ==
    LET HasKey(v) == KeyOf(v) = k
    IN  SelectSeq(vs, HasKey)

\* the position of x in a sequence without duplicates
PositionIn(seq, x) == CHOOSE i \in 1..Len(seq) : seq[i] = x

(***************************************************************************)
(* C11                                                                     *)
(***************************************************************************)
\* C11: empty input at the channel prompt selects the first-listed channel,
\* index 0, whose key is the key of the first file in scan order, and the
\* files carried forward are exactly that channel's files
C11_EmptyInputSelectsFirstChannel ==
    (AnsweredChannel /\ answer = <<>>) =>
        /\ pc # "exit"
        /\ channel_index = 0
        /\ channel = channel_lines[1].channel
        /\ channel = KeyOf(scanned[1])
        /\ videos = FilesWithKey(scanned, KeyOf(scanned[1]))

\* enter typed when two channels are listed and the first has two files
C11_Witness ==
    /\ AnsweredChannel
    /\ answer = <<>>
    /\ Len(channel_lines) = 2
    /\ Len(videos) = 2
    /\ pc = "video_prompt"

(***************************************************************************)
(* C12                                                                     *)
(***************************************************************************)
\* C12: when the channel listing has been printed and when a selection from
\* it has been acted on, the channel listed with number i, and selected by
\* input i, is the i-th distinct channel key in order of first occurrence in
\* the scan result, and the files of a channel keep their scan order
C12_ChannelsInFirstOccurrenceOrder ==
    (pc = "channel_prompt" \/ AnsweredChannel) =>
        /\ Len(channel_lines) = Cardinality(FirstOccurrences(scanned))
        /\ Len(videos_by_channel) = Len(channel_lines)
        /\ LET key == [n \in 1..Len(channel_lines) |-> NthKey(scanned, n)]
           IN  \A i \in 1..Len(channel_lines) :
                 /\ channel_lines[i].num = i
                 /\ channel_lines[i].channel = key[i]
                 /\ videos_by_channel[i].channel = key[i]
                 /\ videos_by_channel[i].videos = FilesWithKey(scanned, key[i])
                 /\ (AnsweredChannel /\ answer = Numeral(i)) =>
                      /\ pc # "exit"
                      /\ channel = key[i]
                      /\ videos = FilesWithKey(scanned, key[i])

\* "2" typed when channel b (one file) is listed before channel a (two files)
C12_Witness ==
    /\ AnsweredChannel
    /\ answer = <<"2">>
    /\ Len(channel_lines) = 2
    /\ channel_lines[1].channel = <<"b">>
    /\ channel = <<"a">>
    /\ Len(videos) = 2

(***************************************************************************)
(* C13                                                                     *)
(***************************************************************************)
\* C13: the grouping, made by the scan that leads to the channel prompt and
\* left alone afterwards, is a partition of the scanned files by channel key:
\* every scanned file is in exactly one channel's list, exactly once, that
\* channel's key is the file's name up to the first "_" (the whole name if
\* it has none), and no channel is empty
C13_GroupingIsPartitionByKey ==
    pc = "channel_prompt" =>
        /\ \A v \in Range(scanned) :
             /\ Cardinality({ ij \in (1..Len(videos_by_channel)) \X (1..Len(scanned)) :
                    /\ ij[2] <= Len(videos_by_channel[ij[1]].videos)
                    /\ videos_by_channel[ij[1]].videos[ij[2]] = v }) = 1
             /\ \A i \in 1..Len(videos_by_channel) :
                    v \in Range(videos_by_channel[i].videos)
                        => videos_by_channel[i].channel = KeyOfName(NameOf(v))
        /\ \A i \in 1..Len(videos_by_channel) :
             /\ videos_by_channel[i].videos # <<>>
             /\ Range(videos_by_channel[i].videos) \subseteq Range(scanned)

\* three files scanned into two channels, one of them named by a file
\* without "_"
C13_Witness ==
    /\ pc = "channel_prompt"
    /\ Len(scanned) = 3
    /\ Len(videos_by_channel) = 2
    /\ \E i \in 1..2 : /\ videos_by_channel[i].channel = <<"c", ".", "m", "o", "v">>
                       /\ Len(videos_by_channel[i].videos) = 1
    /\ \E i \in 1..2 : /\ videos_by_channel[i].channel = <<"a">>
                       /\ Len(videos_by_channel[i].videos) = 2

(***************************************************************************)
(* C14                                                                     *)
(***************************************************************************)
\* C14: the video listing of a multi-video channel is a permutation of the
\* channel's files in ascending creation-time order; files of equal
\* creation time keep their relative scan order
C14_ListingSortedStable ==
    Has(stdout, VideoPromptText) =>
        /\ Len(video_lines) = Len(videos)
        /\ { video_lines[i].video : i \in 1..Len(video_lines) } = Range(videos)
        /\ sorted_videos = [i \in 1..Len(video_lines) |-> video_lines[i].video]
        /\ \A i, j \in 1..Len(video_lines) : i < j =>
             /\ ctime[NameOf(video_lines[i].video)] <= ctime[NameOf(video_lines[j].video)]
             /\ ctime[NameOf(video_lines[i].video)] = ctime[NameOf(video_lines[j].video)]
                  => PositionIn(videos, video_lines[i].video)
                         < PositionIn(videos, video_lines[j].video)

\* three videos listed: the last scanned is the oldest, the other two tie
C14_Witness ==
    /\ pc = "video_prompt"
    /\ Len(video_lines) = 3
    /\ video_lines[1].video = videos[3]
    /\ video_lines[2].timestamp = video_lines[3].timestamp
    /\ video_lines[1].timestamp < video_lines[2].timestamp

(***************************************************************************)
(* C15                                                                     *)
(***************************************************************************)
\* the number of files now in the directory that the scan recognizes and
\* that have channel key k
FilesOnDiskWithKey(k) ==
    Cardinality({ name \in disk0 : Recognized(name) /\ KeyOfName(name) = k })

BadChoice(line, n) ==
    \/ line \in NonIntegerInputs
    \/ \E in \in IntegerInputs : in[1] = line /\ (in[2] < 1 \/ in[2] > n)

\* the run has ended and one of its two selections was out of range or
\* unparsable: the last line read was such a selection, or something was
\* played although an index was out of range
SelectionWasInvalid ==
    \/ AnsweredChannel /\ BadChoice(answer, Len(channel_lines))
    \/ AnsweredVideo /\ BadChoice(answer, Len(video_lines) + 1)
    \/ /\ played # <<>>
       /\ \/ channel_index < 0
          \/ channel_index >= Len(channel_lines)
          \/ Has(stdout, VideoPromptText)
               /\ (video_index < 0 \/ video_index > Len(video_lines))

\* the run has ended in the traceback of a removal that failed
DeletionFailed == Has(stderr, "OSError")

\* C16 as stated: a run that has ended has status 1 exactly when a selection
\* at the channel or video prompt was out of range or unparsable, and status
\* 0 in every other case
C16_Status1OnlyForInvalidSelection ==
    pc = "exit" =>
        /\ exit_status \in {0, 1}
        /\ exit_status = 1 <=> SelectionWasInvalid

\* C16, amended: when every prompt is answered and every player exits, the
\* run terminates and stays terminated; its exit status is 0 or 1, 1 exactly
\* when a selection at the channel or video prompt was out of range or
\* unparsable or a confirmed deletion failed; no prompt for a selection is
\* issued twice
C16_TerminatesWithStatus0Or1 ==
    /\ <>(pc = "exit")
    /\ [](pc = "exit" =>
            /\ exit_status \in {0, 1}
            /\ exit_status = 1 <=> (SelectionWasInvalid \/ DeletionFailed))
    /\ [](/\ Count(stdout, ChannelPromptText) <= 1
          /\ Count(stdout, VideoPromptText) <= 1)
    /\ [][pc = "exit" => pc' = "exit"]_vars

\* a "play all" run over two videos has ended with status 1 after the second
\* video's confirmed deletion failed, both selections having been valid
C16_Witness ==
    /\ pc = "exit"
    /\ exit_status = 1
    /\ Has(stdout, PlayAllText)
    /\ Len(played) = 2
    /\ Count(stdout, DeletePromptText) = 2
    /\ DeletionFailed
    /\ ~SelectionWasInvalid

(***************************************************************************)
(* C17                                                                     *)
(***************************************************************************)
\* C17: the channel prompt is issued at most once; the video prompt at most
\* once, and only after the channel prompt was answered with a valid choice
\* of a channel with more than one file; every playback has its deletion
\* prompt, issued after its player has exited (none while the player runs)
\* and before the next playback starts
C17_PromptsOncePerSelectionAndPlayback ==
    /\ Count(stdout, ChannelPromptText) <= 1
    /\ Count(stdout, VideoPromptText) <= 1
    /\ Has(stdout, VideoPromptText) =>
          /\ Has(stdout, ChannelPromptText)
          /\ channel_index \in 0..(Len(channel_lines) - 1)
          /\ Cardinality(FilesOfLine(channel_index + 1)) > 1
          /\ pc = "video_prompt" => ~BadChoice(answer, Len(channel_lines))
    /\ pc = "mpv" =>
          /\ played # <<>>
          /\ Count(stdout, DeletePromptText) = Len(played) - 1
    /\ pc # "mpv" => Count(stdout, DeletePromptText) = Len(played)

\* the third playback of a "play all" run is on: one channel prompt, one
\* video prompt and the two deletion prompts of the earlier playbacks
C17_Witness ==
    /\ pc = "mpv"
    /\ Len(played) = 3
    /\ Count(stdout, ChannelPromptText) = 1
    /\ Count(stdout, VideoPromptText) = 1
    /\ Count(stdout, DeletePromptText) = 2

(***************************************************************************)
(* C20                                                                     *)
(***************************************************************************)
\* something has been played only after valid selections: the channel index
\* is one of the listed channels and, if that channel has several files,
\* the video prompt was issued and the video index is one of its lines
PlayedAfterValidSelection ==
    played # <<>> =>
        /\ Has(stdout, ChannelPromptText)
        /\ channel_index \in 0..(Len(channel_lines) - 1)
        /\ Cardinality(FilesOfLine(channel_index + 1)) > 1 =>
              /\ Has(stdout, VideoPromptText)
              /\ video_index \in 0..Len(video_lines)

\* a run over a non-empty scan that has ended with status 0 has played
Status0MeansPlayed ==
    (pc = "exit" /\ exit_status = 0 /\ scanned # <<>>) => played # <<>>

\* C20 as stated: playback never precedes a valid selection, a run over a
\* non-empty scan that ends with status 0 has played a video, and a run that
\* ends with status 1 has played no video and deleted no file
C20_Status1MeansNothingPlayed ==
    /\ PlayedAfterValidSelection
    /\ Status0MeansPlayed
    /\ (pc = "exit" /\ exit_status = 1) =>
          /\ played = <<>>
          /\ removed = <<>>
          /\ disk = disk0

\* C20, amended: playback never precedes a valid selection, a run over a
\* non-empty scan that ends with status 0 has played a video, and a run that
\* ends with status 1 for any reason but a failed deletion has played no
\* video and deleted no file
C20_PlaybackOnlyAfterValidSelection ==
    /\ PlayedAfterValidSelection
    /\ Status0MeansPlayed
    /\ (pc = "exit" /\ exit_status = 1 /\ ~DeletionFailed) =>
          /\ played = <<>>
          /\ removed = <<>>
          /\ disk = disk0

\* a run has ended with status 1 at the video prompt of a channel of three
\* files: nothing was played and the directory is as it was
C20_Witness ==
    /\ pc = "exit"
    /\ exit_status = 1
    /\ Has(stdout, VideoPromptText)
    /\ Len(video_lines) = 3
    /\ played = <<>>
    /\ disk = disk0

(***************************************************************************)
(* C18                                                                     *)
(***************************************************************************)
\* C18: whatever the file's path, the shell starts the player with exactly
\* one argument, equal to the path character for character, and evaluates
\* no part of the path
C18_PlayerGetsPathAsOneArgument ==
    pc = "mpv" =>
        /\ system(cmd(filename)).status = "run"
        /\ system(cmd(filename)).argv = << <<"m", "p", "v">>, filename >>
        /\ system(cmd(filename)).evaluated = <<>>

(***************************************************************************)
(* C19                                                                     *)
(***************************************************************************)
\* C19: the name shown on a line of the video listing is the file's base
\* name without its leading key and "_": for a base name key + "_" + rest
\* it is rest exactly, also when rest contains key + "_" again
C19_ShownNameIsRestAfterKey ==
    \A i \in 1..Len(video_lines) :
        StartsWith(NameOf(video_lines[i].video), KeyOf(video_lines[i].video) \o <<"_">>) =>
            video_lines[i].name =
                DropFirst(NameOf(video_lines[i].video),
                          Len(KeyOf(video_lines[i].video)) + 1)

====
